---- MODULE Spec2Model ----
(***************************************************************************)
(* Model of the IO Pi (MCP23017) driver of src/iopi.go.                    *)
(*                                                                         *)
(* Every caller (one goroutine per Device) is a process whose position is  *)
(* pc[d]; each call the driver makes on its transport (open, ioctl, Write, *)
(* Read, Close) is one atomic step, so calls of different goroutines       *)
(* interleave exactly where the Go code lets them.                         *)
(***************************************************************************)
EXTENDS Integers, Sequences, FiniteSets, TLC

\* ------------------------------------------------------------- constants
IODIRA == 0
IODIRB == 1
IPOLA == 2
IPOLB == 3
IOCON == 10
GPPUA == 12
GPPUB == 13
GPIOA == 18
GPIOB == 19

PortA == 0
PortB == 1

PinPolarityNormal == 0
PinPolarityInverted == 1

Output == 0
Input == 1

StateLow == 0
StateHigh == 1

\* ---------------------------------------------------------------- bounds
\* operations the callers issue in a concurrent run
MaxOps == 2
\* transport calls that may fail in one run
MaxFaults == 1

\* ------------------------------------------------------------ model sets
Devs == {1, 2}
\* dev.Address of the two Devices (0x20, 0x21); 0 is "no address bound"
Address == [d \in Devs |-> 31 + d]
Addrs == {Address[d] : d \in Devs}
NoAddr == 0
Regs == {IODIRA, IODIRB, IPOLA, IPOLB, IOCON, GPPUA, GPPUB, GPIOA, GPIOB}
Byte == 0..255
\* dev.bus: nil, the handle the caller supplied (shared), or the file that
\* Init of device d opened itself (file d)
Nil == -1
Shared == 0
Files == {Shared} \cup Devs

VARIABLES
    chip,    \* chip[a][reg]: register file of the chip at bus address a
    ptr,     \* ptr[a]: register pointer of the chip at address a
    fopen,   \* fopen[f]: file f is open
    bound,   \* bound[f]: address selected on file f by ioctl(I2C_SLAVE)
    bus,     \* bus[d]: dev.bus
    pc,      \* pc[d]: position of the caller of device d
    cur,     \* cur[d]: the operation in progress (or the last one)
    calls,   \* calls[d]: transport calls made by the operation of cur[d]
    res,     \* res[d]: result of the last completed operation
    left,    \* operations the callers will still issue
    pool,    \* pool[d]: the arguments the caller of d chooses from
    short,   \* the transport may return a short count with a nil error
    faults,  \* transport failures so far
    ready    \* ready[d]: an Init of Device d has returned nil

vars == <<chip, ptr, fopen, bound, bus, pc, cur, calls, res, left,
          pool, short, faults, ready>>

\* ------------------------------------------------------------ bit fields
Bit(x, i) == (x \div (2 ^ i)) % 2

\* x & y, x | y, x &^ y on bytes
And8(x, y) ==
    LET b(i) == (2 ^ i) * (Bit(x, i) * Bit(y, i))
    IN  b(0) + b(1) + b(2) + b(3) + b(4) + b(5) + b(6) + b(7)

Or8(x, y) ==
    LET b(i) == (2 ^ i) * (IF Bit(x, i) + Bit(y, i) > 0 THEN 1 ELSE 0)
    IN  b(0) + b(1) + b(2) + b(3) + b(4) + b(5) + b(6) + b(7)

AndNot8(x, y) ==
    LET b(i) == (2 ^ i) * (Bit(x, i) * (1 - Bit(y, i)))
    IN  b(0) + b(1) + b(2) + b(3) + b(4) + b(5) + b(6) + b(7)

\* (variant) the shift count is taken modulo 8
Shl1CountMod8(bit) == 2 ^ (bit % 8)

\* (1 << bit) evaluated in type byte: the bit is shifted out for bit >= 8
Shl1(bit) == IF bit >= 8 THEN 0 ELSE 2 ^ bit

\* (variant) only the value 1 sets the bit, every other value clears it
setBitOnlyOne(byt, bit, value) ==
    IF value = 1 THEN Or8(byt, Shl1(bit)) ELSE AndNot8(byt, Shl1(bit))

setBit(byt, bit, value) ==
    IF value = 0 THEN AndNot8(byt, Shl1(bit)) ELSE Or8(byt, Shl1(bit))

getBit(byt, bit) == IF And8(byt, Shl1(bit)) > 0 THEN 1 ELSE 0

\* (variant) pin 8 is taken to be on port B
translatePinFromEight(pin) ==
    IF pin >= 8 THEN [pin |-> (pin - 1 - 8) % 256, port |-> PortB]
                ELSE [pin |-> (pin - 1) % 256, port |-> PortA]

\* uint8 arithmetic: pin - 1 - 8 and pin - 1 wrap modulo 256
translatePin(pin) ==
    IF pin > 8 THEN [pin |-> (pin - 1 - 8) % 256, port |-> PortB]
               ELSE [pin |-> (pin - 1) % 256, port |-> PortA]

\* ------------------------------------------------- port -> register maps
\* what a port-level function hands to WriteByteData; ok = FALSE is the
\* "invalid port" return
SetPortPullupsReq(port, state) ==
    CASE port = PortA -> [ok |-> TRUE, reg |-> GPPUA, val |-> state]
      [] port = PortB -> [ok |-> TRUE, reg |-> GPPUB, val |-> state]
      [] OTHER -> [ok |-> FALSE, reg |-> 0, val |-> 0]

SetPortPolarityReq(port, pol) ==
    CASE port = PortA -> [ok |-> TRUE, reg |-> IPOLA, val |-> pol]
      [] port = PortB -> [ok |-> TRUE, reg |-> IPOLB, val |-> pol]
      [] OTHER -> [ok |-> FALSE, reg |-> 0, val |-> 0]

SetPortDirectionReq(port, mode) ==
    CASE port = PortA -> [ok |-> TRUE, reg |-> IODIRA, val |-> mode]
      [] port = PortB -> [ok |-> TRUE, reg |-> IODIRB, val |-> mode]
      [] OTHER -> [ok |-> FALSE, reg |-> 0, val |-> 0]

\* (variant) the registers of the two ports are exchanged
WritePortReqSwapped(port, state) ==
    CASE port = PortA -> [ok |-> TRUE, reg |-> GPIOB, val |-> state]
      [] port = PortB -> [ok |-> TRUE, reg |-> GPIOA, val |-> state]
      [] OTHER -> [ok |-> FALSE, reg |-> 0, val |-> 0]

WritePortReq(port, state) ==
    CASE port = PortA -> [ok |-> TRUE, reg |-> GPIOA, val |-> state]
      [] port = PortB -> [ok |-> TRUE, reg |-> GPIOB, val |-> state]
      [] OTHER -> [ok |-> FALSE, reg |-> 0, val |-> 0]

\* (variant) any port other than A is taken to be port B
ReadPortReqDefaultB(port) ==
    CASE port = PortA -> [ok |-> TRUE, reg |-> GPIOA, val |-> 0]
      [] OTHER -> [ok |-> TRUE, reg |-> GPIOB, val |-> 0]

ReadPortReq(port) ==
    CASE port = PortA -> [ok |-> TRUE, reg |-> GPIOA, val |-> 0]
      [] port = PortB -> [ok |-> TRUE, reg |-> GPIOB, val |-> 0]
      [] OTHER -> [ok |-> FALSE, reg |-> 0, val |-> 0]

\* the register a pin-level function reads and writes back
PullupReg(port) == IF port = PortA THEN GPPUA ELSE GPPUB
PolarityReg(port) == IF port = PortA THEN IPOLA ELSE IPOLB
DirectionReg(port) == IF port = PortA THEN IODIRA ELSE IODIRB

\* the seven calls of driverInit, in order
driverInit ==
    << [ok |-> TRUE, reg |-> IOCON, val |-> 34],
       SetPortDirectionReq(PortA, Input),
       SetPortDirectionReq(PortB, Input),
       SetPortPullupsReq(PortA, 0),
       SetPortPullupsReq(PortB, 0),
       SetPortPolarityReq(PortA, PinPolarityNormal),
       SetPortPolarityReq(PortB, PinPolarityNormal) >>

\* ------------------------------------------------------------- transport
\* The (n, err) a Write of len bytes or a Read into a len-byte buffer can
\* return to device d.  A nil or closed *os.File and a file with no chip
\* address selected return an error; otherwise the call succeeds, or fails
\* on the bus, or (only with a transport that allows it) returns a short
\* count with a nil error.
Reaches(d) == bus[d] # Nil /\ fopen[bus[d]]

\* (variant) a closed file still carries the transfer
OutcomesIgnoresClose(d, len) ==
    IF bus[d] = Nil \/ bound[bus[d]] = NoAddr
    THEN {[n |-> 0, err |-> TRUE]}
    ELSE {[n |-> len, err |-> FALSE]}
         \cup (IF faults < MaxFaults THEN {[n |-> 0, err |-> TRUE]} ELSE {})
         \cup (IF short /\ faults < MaxFaults
               THEN {[n |-> k, err |-> FALSE] : k \in 0..(len - 1)}
               ELSE {})

Outcomes(d, len) ==
    IF ~Reaches(d) \/ bound[bus[d]] = NoAddr
    THEN {[n |-> 0, err |-> TRUE]}
    ELSE {[n |-> len, err |-> FALSE]}
         \cup (IF faults < MaxFaults THEN {[n |-> 0, err |-> TRUE]} ELSE {})
         \cup (IF short /\ faults < MaxFaults
               THEN {[n |-> k, err |-> FALSE] : k \in 0..(len - 1)}
               ELSE {})

Faulty(o, len) == o.err \/ o.n < len

\* (variant) a register write merges the byte into the register (bitwise
\* or) instead of replacing its content
ChipWriteMerge(c, a, buf, n) ==
    IF n >= 2 THEN [c EXCEPT ![a][buf[1]] = Or8(@, buf[2])] ELSE c

\* the chip at the selected address receives the first n bytes of buf:
\* byte 1 sets its register pointer, byte 2 is stored in that register
ChipWrite(c, a, buf, n) ==
    IF n >= 2 THEN [c EXCEPT ![a][buf[1]] = buf[2]] ELSE c

PtrWrite(p, a, buf, n) ==
    IF n >= 1 THEN [p EXCEPT ![a] = buf[1]] ELSE p

Call(kind, buf, o) == [k |-> kind, buf |-> buf, n |-> o.n, err |-> o.err]

\* ------------------------------------------------------------- workloads
Op(fn, a, b) == [fn |-> fn, a |-> a, b |-> b]

\* the pins, bytes, ports and registers the caller of a Device passes
Pins(tag) ==
    CASE tag = "wide" -> 0..17 \cup {255}
      [] tag = "small" -> {1} [] tag = "other" -> {2}
      [] OTHER -> {}

Bytes(tag) ==
    CASE tag = "wide" -> {0, 1, 85, 255} [] tag \in {"small", "other"} -> {1}
      [] OTHER -> {}

Ports(tag) ==
    CASE tag = "wide" -> {PortA, PortB, 2, 255}
      [] tag \in {"small", "other"} -> {PortA}
      [] OTHER -> {}

Registers(tag) ==
    CASE tag = "wide" -> Regs [] tag \in {"small", "other"} -> {GPIOA}
      [] OTHER -> {}

\* ------------------------------------------------------- call and return
NoRes == [done |-> FALSE, err |-> FALSE, val |-> 0]

\* the caller of d is free to make its next call
Idle(d) == pc[d] = "idle" /\ left > 0

\* the caller of d enters function o.fn
Enter(d, o, to, reg, val, bit) ==
    /\ Idle(d)
    /\ left' = left - 1
    /\ pc' = [pc EXCEPT ![d] = to]
    /\ cur' = [cur EXCEPT ![d] = [fn |-> o.fn, a |-> o.a, b |-> o.b,
                                  reg |-> reg, val |-> val, bit |-> bit,
                                  step |-> 0]]
    /\ calls' = [calls EXCEPT ![d] = << >>]
    /\ res' = [res EXCEPT ![d] = NoRes]
    /\ UNCHANGED <<chip, ptr, fopen, bound, bus, pool, short, faults,
                   ready>>

\* the function entered returns at once, without a transport call
Reject(d, o) ==
    /\ Idle(d)
    /\ left' = left - 1
    /\ cur' = [cur EXCEPT ![d] = [fn |-> o.fn, a |-> o.a, b |-> o.b,
                                  reg |-> 0, val |-> 0, bit |-> 0,
                                  step |-> 0]]
    /\ calls' = [calls EXCEPT ![d] = << >>]
    /\ res' = [res EXCEPT ![d] = [done |-> TRUE, err |-> TRUE, val |-> 0]]
    /\ UNCHANGED <<chip, ptr, fopen, bound, bus, pc, pool, short,
                   faults, ready>>

\* the function of cur[d] returns (v, e) to its caller
Finish(d, e, v) ==
    /\ pc' = [pc EXCEPT ![d] = "idle"]
    /\ res' = [res EXCEPT ![d] = [done |-> TRUE, err |-> e, val |-> v]]
    /\ cur' = cur

\* the function of cur[d] goes on to WriteByteData(reg, val)
GoWrite(d, reg, val, step) ==
    /\ pc' = [pc EXCEPT ![d] = "wbd_write"]
    /\ cur' = [cur EXCEPT ![d].reg = reg, ![d].val = val, ![d].step = step]
    /\ res' = res

\* ------------------------------------------ what follows a register read
\* ReadByteData returned (v, e) to the function of cur[d]
SetPinPullupResume(d, v, e) ==
    \* "state, err := dev.ReadByteData(reg)" assigns the byte read to the
    \* parameter state, so the byte read is also the value given to setBit
    IF e THEN Finish(d, TRUE, 0)
    ELSE GoWrite(d, cur[d].reg, setBit(v, cur[d].bit, v), 0)

SetPinPolarityResume(d, v, e) ==
    IF e THEN Finish(d, TRUE, 0)
    ELSE GoWrite(d, cur[d].reg, setBit(v, cur[d].bit, cur[d].b), 0)

\* (variant) the bit is set whatever the mode asked for
SetPinDirectionResumeAlwaysSet(d, v, e) ==
    IF e THEN Finish(d, TRUE, 0)
    ELSE GoWrite(d, cur[d].reg, setBit(v, cur[d].bit, 1), 0)

SetPinDirectionResume(d, v, e) ==
    IF e THEN Finish(d, TRUE, 0)
    ELSE GoWrite(d, cur[d].reg, setBit(v, cur[d].bit, cur[d].b), 0)

\* (variant) the pin number is used as the bit index, untranslated
WritePinResumeRawPin(d, v, e) ==
    IF e THEN Finish(d, TRUE, 0)
    ELSE LET w == WritePortReq(translatePin(cur[d].a).port,
                               setBit(v, cur[d].a, cur[d].b))
         IN  IF w.ok THEN GoWrite(d, w.reg, w.val, 0)
             ELSE Finish(d, TRUE, 0)

\* (variant) WritePin goes on to its write when the read has failed
WritePinResumeIgnoresError(d, v, e) ==
    LET w == WritePortReq(translatePin(cur[d].a).port,
                          setBit(v, cur[d].bit, cur[d].b))
    IN  IF w.ok THEN GoWrite(d, w.reg, w.val, 0)
        ELSE Finish(d, TRUE, 0)

WritePinResume(d, v, e) ==
    IF e THEN Finish(d, TRUE, 0)
    ELSE LET w == WritePortReq(translatePin(cur[d].a).port,
                               setBit(v, cur[d].bit, cur[d].b))
         IN  IF w.ok THEN GoWrite(d, w.reg, w.val, 0)
             ELSE Finish(d, TRUE, 0)

\* (variant) ReadPin returns the byte read, not the pin's bit
ReadPinResumeWholeByte(d, v, e) == Finish(d, e, v)

ReadPinResume(d, v, e) == Finish(d, e, getBit(v, cur[d].bit))

AfterRead(d, v, e) ==
    CASE cur[d].fn = "SetPinPullup" -> SetPinPullupResume(d, v, e)
      [] cur[d].fn = "SetPinPolarity" -> SetPinPolarityResume(d, v, e)
      [] cur[d].fn = "SetPinDirection" -> SetPinDirectionResume(d, v, e)
      [] cur[d].fn = "WritePin" -> WritePinResume(d, v, e)
      [] cur[d].fn = "ReadPin" -> ReadPinResume(d, v, e)
      [] OTHER -> Finish(d, e, v)

\* (variant) an error of WriteByteData is dropped by every caller, as
\* driverInit drops it
AfterWriteDropsError(d, e) ==
    IF cur[d].fn = "Init"
    THEN IF cur[d].step < Len(driverInit)
         THEN GoWrite(d, driverInit[cur[d].step + 1].reg,
                      driverInit[cur[d].step + 1].val, cur[d].step + 1)
         ELSE Finish(d, FALSE, 0)
    ELSE Finish(d, FALSE, 0)

\* (variant) Init stops at the first call of driverInit that fails and
\* returns its error
AfterWriteStopsInit(d, e) ==
    IF cur[d].fn = "Init"
    THEN IF e THEN Finish(d, TRUE, 0)
         ELSE IF cur[d].step < Len(driverInit)
              THEN GoWrite(d, driverInit[cur[d].step + 1].reg,
                           driverInit[cur[d].step + 1].val, cur[d].step + 1)
              ELSE Finish(d, FALSE, 0)
    ELSE Finish(d, e, 0)

\* WriteByteData returned e: Init drops it and goes on with driverInit
AfterWrite(d, e) ==
    IF cur[d].fn = "Init"
    THEN IF cur[d].step < Len(driverInit)
         THEN GoWrite(d, driverInit[cur[d].step + 1].reg,
                      driverInit[cur[d].step + 1].val, cur[d].step + 1)
         ELSE Finish(d, FALSE, 0)
    ELSE Finish(d, e, 0)

\* ------------------------------------------------------- transport steps
\* ReadByteData: n, err := dev.bus.Write(buf) with buf = [reg]
BusWriteAddr(d) ==
    /\ pc[d] = "rbd_write"
    /\ \E o \in Outcomes(d, 1) :
         LET buf == <<cur[d].reg>> IN
         /\ calls' = [calls EXCEPT ![d] = Append(@, Call("Write", buf, o))]
         /\ ptr' = IF Reaches(d) /\ bound[bus[d]] # NoAddr
                   THEN PtrWrite(ptr, bound[bus[d]], buf, o.n) ELSE ptr
         /\ faults' = IF Faulty(o, 1) /\ Reaches(d) /\ bound[bus[d]] # NoAddr
                      THEN faults + 1 ELSE faults
         /\ IF o.err THEN AfterRead(d, 0, TRUE)
            ELSE /\ pc' = [pc EXCEPT ![d] = "rbd_read"]
                 /\ UNCHANGED <<cur, res>>
    /\ UNCHANGED <<chip, fopen, bound, bus, left, pool, short, ready>>

\* ReadByteData: n, err = dev.bus.Read(buf); a read of no byte leaves the
\* register address in buf[0]
BusRead(d) ==
    /\ pc[d] = "rbd_read"
    /\ \E o \in Outcomes(d, 1) :
         LET data == IF o.n >= 1 THEN chip[bound[bus[d]]][ptr[bound[bus[d]]]]
                     ELSE cur[d].reg
         IN
         /\ calls' = [calls EXCEPT ![d] = Append(@, Call("Read", <<data>>, o))]
         /\ faults' = IF Faulty(o, 1) /\ Reaches(d) /\ bound[bus[d]] # NoAddr
                      THEN faults + 1 ELSE faults
         /\ IF o.err THEN AfterRead(d, 0, TRUE)
            ELSE AfterRead(d, data, FALSE)
    /\ UNCHANGED <<chip, ptr, fopen, bound, bus, left, pool, short, ready>>

\* WriteByteData: n, err := dev.bus.Write(buf) with buf = [reg, value]
BusWriteData(d) ==
    /\ pc[d] = "wbd_write"
    /\ \E o \in Outcomes(d, 2) :
         LET buf == <<cur[d].reg, cur[d].val>> IN
         /\ calls' = [calls EXCEPT ![d] = Append(@, Call("Write", buf, o))]
         /\ chip' = IF Reaches(d) /\ bound[bus[d]] # NoAddr
                    THEN ChipWrite(chip, bound[bus[d]], buf, o.n) ELSE chip
         /\ ptr' = IF Reaches(d) /\ bound[bus[d]] # NoAddr
                   THEN PtrWrite(ptr, bound[bus[d]], buf, o.n) ELSE ptr
         /\ faults' = IF Faulty(o, 2) /\ Reaches(d) /\ bound[bus[d]] # NoAddr
                      THEN faults + 1 ELSE faults
         /\ AfterWrite(d, o.err)
    \* Init returns nil once the last call of driverInit has returned
    /\ ready' = IF cur[d].fn = "Init" /\ cur[d].step = Len(driverInit)
                THEN [ready EXCEPT ![d] = TRUE] ELSE ready
    /\ UNCHANGED <<fopen, bound, bus, left, pool, short>>

\* Init: os.OpenFile(dev.Path, ...) when dev.bus == nil
OpenFile(d) ==
    /\ pc[d] = "open"
    /\ \/ /\ fopen' = [fopen EXCEPT ![d] = TRUE]
          /\ bound' = [bound EXCEPT ![d] = NoAddr]
          /\ bus' = [bus EXCEPT ![d] = d]
          /\ calls' = [calls EXCEPT ![d] =
                 Append(@, [k |-> "Open", buf |-> << >>, n |-> 0,
                            err |-> FALSE])]
          /\ pc' = [pc EXCEPT ![d] = "ioctl"]
          /\ UNCHANGED <<cur, res, faults>>
       \/ /\ faults < MaxFaults
          /\ faults' = faults + 1
          /\ calls' = [calls EXCEPT ![d] =
                 Append(@, [k |-> "Open", buf |-> << >>, n |-> 0,
                            err |-> TRUE])]
          /\ Finish(d, TRUE, 0)
          /\ UNCHANGED <<fopen, bound, bus>>
    /\ UNCHANGED <<chip, ptr, left, pool, short, ready>>

\* (variant) a failed address bind does not stop Init: driverInit runs
IoctlSetIntIgnored(d) ==
    /\ pc[d] = "ioctl"
    /\ \/ /\ Reaches(d)
          /\ bound' = [bound EXCEPT ![bus[d]] = Address[d]]
          /\ calls' = [calls EXCEPT ![d] =
                 Append(@, [k |-> "Ioctl", buf |-> <<Address[d]>>, n |-> 0,
                            err |-> FALSE])]
          /\ GoWrite(d, driverInit[1].reg, driverInit[1].val, 1)
          /\ UNCHANGED faults
       \/ /\ ~Reaches(d) \/ faults < MaxFaults
          /\ faults' = IF Reaches(d) THEN faults + 1 ELSE faults
          /\ calls' = [calls EXCEPT ![d] =
                 Append(@, [k |-> "Ioctl", buf |-> <<Address[d]>>, n |-> 0,
                            err |-> TRUE])]
          /\ GoWrite(d, driverInit[1].reg, driverInit[1].val, 1)
          /\ UNCHANGED bound
    /\ UNCHANGED <<chip, ptr, fopen, bus, left, pool, short, ready>>

\* Init: unix.IoctlSetInt(fd, I2C_SLAVE, dev.Address), then driverInit
IoctlSetInt(d) ==
    /\ pc[d] = "ioctl"
    /\ \/ /\ Reaches(d)
          /\ bound' = [bound EXCEPT ![bus[d]] = Address[d]]
          /\ calls' = [calls EXCEPT ![d] =
                 Append(@, [k |-> "Ioctl", buf |-> <<Address[d]>>, n |-> 0,
                            err |-> FALSE])]
          /\ GoWrite(d, driverInit[1].reg, driverInit[1].val, 1)
          /\ UNCHANGED faults
       \/ /\ ~Reaches(d) \/ faults < MaxFaults
          /\ faults' = IF Reaches(d) THEN faults + 1 ELSE faults
          /\ calls' = [calls EXCEPT ![d] =
                 Append(@, [k |-> "Ioctl", buf |-> <<Address[d]>>, n |-> 0,
                            err |-> TRUE])]
          /\ Finish(d, TRUE, 0)
          /\ UNCHANGED bound
    /\ UNCHANGED <<chip, ptr, fopen, bus, left, pool, short, ready>>

\* (variant) Close reports success whatever the transport's close returns
BusCloseSwallowsError(d) ==
    /\ pc[d] = "close"
    /\ \/ /\ Reaches(d)
          /\ fopen' = [fopen EXCEPT ![bus[d]] = FALSE]
          /\ \E e \in {FALSE} \cup (IF faults < MaxFaults THEN {TRUE} ELSE {}) :
               /\ faults' = IF e THEN faults + 1 ELSE faults
               /\ calls' = [calls EXCEPT ![d] =
                      Append(@, [k |-> "Close", buf |-> << >>, n |-> 0,
                                 err |-> e])]
               /\ Finish(d, FALSE, 0)
       \/ /\ ~Reaches(d)
          /\ calls' = [calls EXCEPT ![d] =
                 Append(@, [k |-> "Close", buf |-> << >>, n |-> 0,
                            err |-> TRUE])]
          /\ Finish(d, FALSE, 0)
          /\ UNCHANGED <<fopen, faults>>
    /\ UNCHANGED <<chip, ptr, bound, bus, left, pool, short, ready>>

\* Close: return dev.bus.Close()
BusClose(d) ==
    /\ pc[d] = "close"
    /\ \/ /\ Reaches(d)
          /\ fopen' = [fopen EXCEPT ![bus[d]] = FALSE]
          /\ \E e \in {FALSE} \cup (IF faults < MaxFaults THEN {TRUE} ELSE {}) :
               /\ faults' = IF e THEN faults + 1 ELSE faults
               /\ calls' = [calls EXCEPT ![d] =
                      Append(@, [k |-> "Close", buf |-> << >>, n |-> 0,
                                 err |-> e])]
               /\ Finish(d, e, 0)
       \/ /\ ~Reaches(d)
          /\ calls' = [calls EXCEPT ![d] =
                 Append(@, [k |-> "Close", buf |-> << >>, n |-> 0,
                            err |-> TRUE])]
          /\ Finish(d, TRUE, 0)
          /\ UNCHANGED <<fopen, faults>>
    /\ UNCHANGED <<chip, ptr, bound, bus, left, pool, short, ready>>

\* ----------------------------------------------------- the API functions
\* Each action is the caller of d entering the function; the function's
\* transport calls are the steps above.

\* (variant) Init opens the path whether or not the Device holds a file
InitAlwaysOpens(d) ==
    /\ pool[d] # "none"
    /\ Enter(d, Op("Init", 0, 0), "open", 0, 0, 0)

Init(d) ==
    /\ pool[d] # "none"
    /\ Enter(d, Op("Init", 0, 0), IF bus[d] = Nil THEN "open" ELSE "ioctl",
             0, 0, 0)

Close(d) ==
    /\ pool[d] # "none"
    /\ Enter(d, Op("Close", 0, 0), "close", 0, 0, 0)

\* (variant) the read is issued without sending the register address first
ReadByteDataNoAddress(d) ==
    /\ Idle(d)
    /\ \E reg \in Registers(pool[d]) :
           Enter(d, Op("ReadByteData", reg, 0), "rbd_read", reg, 0, 0)

ReadByteData(d) ==
    /\ Idle(d)
    /\ \E reg \in Registers(pool[d]) :
           Enter(d, Op("ReadByteData", reg, 0), "rbd_write", reg, 0, 0)

\* (variant) the buffer is built as [value, reg]
WriteByteDataSwapped(d) ==
    /\ Idle(d)
    /\ \E reg \in Registers(pool[d]), value \in Bytes(pool[d]) :
           Enter(d, Op("WriteByteData", reg, value), "wbd_write", value, reg, 0)

WriteByteData(d) ==
    /\ Idle(d)
    /\ \E reg \in Registers(pool[d]), value \in Bytes(pool[d]) :
           Enter(d, Op("WriteByteData", reg, value), "wbd_write", reg, value, 0)

SetPortPullups(d) ==
    /\ Idle(d)
    /\ \E port \in Ports(pool[d]), state \in Bytes(pool[d]) :
           LET w == SetPortPullupsReq(port, state)
               o == Op("SetPortPullups", port, state)
           IN  IF w.ok THEN Enter(d, o, "wbd_write", w.reg, w.val, 0)
               ELSE Reject(d, o)

SetPinPullup(d) ==
    /\ Idle(d)
    /\ \E pin \in Pins(pool[d]), state \in Bytes(pool[d]) :
           LET t == translatePin(pin)
           IN  Enter(d, Op("SetPinPullup", pin, state), "rbd_write",
                     PullupReg(t.port), 0, t.pin)

SetPortPolarity(d) ==
    /\ Idle(d)
    /\ \E port \in Ports(pool[d]), pol \in Bytes(pool[d]) :
           LET w == SetPortPolarityReq(port, pol)
               o == Op("SetPortPolarity", port, pol)
           IN  IF w.ok THEN Enter(d, o, "wbd_write", w.reg, w.val, 0)
               ELSE Reject(d, o)

SetPinPolarity(d) ==
    /\ Idle(d)
    /\ \E pin \in Pins(pool[d]), pol \in Bytes(pool[d]) :
           LET t == translatePin(pin)
           IN  Enter(d, Op("SetPinPolarity", pin, pol), "rbd_write",
                     PolarityReg(t.port), 0, t.pin)

SetPortDirection(d) ==
    /\ Idle(d)
    /\ \E port \in Ports(pool[d]), mode \in Bytes(pool[d]) :
           LET w == SetPortDirectionReq(port, mode)
               o == Op("SetPortDirection", port, mode)
           IN  IF w.ok THEN Enter(d, o, "wbd_write", w.reg, w.val, 0)
               ELSE Reject(d, o)

SetPinDirection(d) ==
    /\ Idle(d)
    /\ \E pin \in Pins(pool[d]), mode \in Bytes(pool[d]) :
           LET t == translatePin(pin)
           IN  Enter(d, Op("SetPinDirection", pin, mode), "rbd_write",
                     DirectionReg(t.port), 0, t.pin)

WritePort(d) ==
    /\ Idle(d)
    /\ \E port \in Ports(pool[d]), state \in Bytes(pool[d]) :
           LET w == WritePortReq(port, state)
               o == Op("WritePort", port, state)
           IN  IF w.ok THEN Enter(d, o, "wbd_write", w.reg, w.val, 0)
               ELSE Reject(d, o)

ReadPort(d) ==
    /\ Idle(d)
    /\ \E port \in Ports(pool[d]) :
           LET w == ReadPortReq(port)
               o == Op("ReadPort", port, 0)
           IN  IF w.ok THEN Enter(d, o, "rbd_write", w.reg, 0, 0)
               ELSE Reject(d, o)

WritePin(d) ==
    /\ Idle(d)
    /\ \E pin \in Pins(pool[d]), state \in Bytes(pool[d]) :
           LET t == translatePin(pin)
               w == ReadPortReq(t.port)
               o == Op("WritePin", pin, state)
           IN  IF w.ok THEN Enter(d, o, "rbd_write", w.reg, 0, t.pin)
               ELSE Reject(d, o)

ReadPin(d) ==
    /\ Idle(d)
    /\ \E pin \in Pins(pool[d]) :
           LET t == translatePin(pin)
               w == ReadPortReq(t.port)
               o == Op("ReadPin", pin, 0)
           IN  IF w.ok THEN Enter(d, o, "rbd_write", w.reg, 0, t.pin)
               ELSE Reject(d, o)

\* ------------------------------------------------------------ the system
NoOp == [fn |-> "none", a |-> 0, b |-> 0, reg |-> 0, val |-> 0, bit |-> 0,
         step |-> 0]

\* the registers of the chips hold r, shifted per register and per chip so
\* that no two registers of the model start equal
Seed(r, a, reg) == (r + reg + 7 * (a - 32)) % 256

\* NewI2CDevice: a Device is built on a path (dev.bus = nil) or on the open
\* handle its caller shares; the shared handle may already have an address
\* selected, by an earlier Init of Device 1; the bus has failed spent
\* times
Start(R, B, tag, n, sh, spent) ==
    /\ \E r \in R : chip = [a \in Addrs |-> [reg \in Regs |-> Seed(r, a, reg)]]
    /\ ptr = [a \in Addrs |-> IODIRA]
    /\ fopen = [f \in Files |-> f = Shared]
    /\ bus \in B
    /\ bound \in {[f \in Files |-> IF f = Shared THEN a ELSE NoAddr] :
                    a \in IF \E d \in Devs : bus[d] = Nil THEN {NoAddr}
                          ELSE {NoAddr, Address[1]}}
    /\ pc = [d \in Devs |-> "idle"]
    /\ cur = [d \in Devs |-> NoOp]
    /\ calls = [d \in Devs |-> << >>]
    /\ res = [d \in Devs |-> NoRes]
    /\ left = n
    /\ pool = tag
    /\ short = sh
    /\ faults = spent
    /\ ready = [d \in Devs |-> bus[d] # Nil /\ bound[bus[d]] = Address[d]]

Next ==
    \E d \in Devs :
        \/ Init(d)
        \/ Close(d)
        \/ ReadByteData(d)
        \/ WriteByteData(d)
        \/ SetPortPullups(d)
        \/ SetPinPullup(d)
        \/ SetPortPolarity(d)
        \/ SetPinPolarity(d)
        \/ SetPortDirection(d)
        \/ SetPinDirection(d)
        \/ WritePort(d)
        \/ ReadPort(d)
        \/ WritePin(d)
        \/ ReadPin(d)
        \/ OpenFile(d)
        \/ IoctlSetInt(d)
        \/ BusWriteAddr(d)
        \/ BusRead(d)
        \/ BusWriteData(d)
        \/ BusClose(d)

\* two callers, one per Device, run concurrently; Device 1 is built on the
\* shared handle, Device 2 on the shared handle or on a path; the bus fails
\* at most once in such a run
Concurrent ==
    Start({0}, {[d \in Devs |-> IF d = 1 THEN Shared ELSE b] : b \in {Nil, Shared}},
          [d \in Devs |-> IF d = 1 THEN "small" ELSE "other"], MaxOps, FALSE,
          MaxFaults - 1)

Spec == Concurrent /\ [][Next]_vars

\* the same Devices used from one goroutine: a call is entered only when
\* no call is in progress
Quiet == \A e \in Devs : pc[e] = "idle"

NextSerial ==
    \E d \in Devs :
        \/ Quiet /\ Init(d)
        \/ Quiet /\ Close(d)
        \/ Quiet /\ ReadByteData(d)
        \/ Quiet /\ WriteByteData(d)
        \/ Quiet /\ SetPortPullups(d)
        \/ Quiet /\ SetPinPullup(d)
        \/ Quiet /\ SetPortPolarity(d)
        \/ Quiet /\ SetPinPolarity(d)
        \/ Quiet /\ SetPortDirection(d)
        \/ Quiet /\ SetPinDirection(d)
        \/ Quiet /\ WritePort(d)
        \/ Quiet /\ ReadPort(d)
        \/ Quiet /\ WritePin(d)
        \/ Quiet /\ ReadPin(d)
        \/ OpenFile(d)
        \/ IoctlSetInt(d)
        \/ BusWriteAddr(d)
        \/ BusRead(d)
        \/ BusWriteData(d)
        \/ BusClose(d)

SpecSerial == Concurrent /\ [][NextSerial]_vars

\* one caller issues one call on Device 1, with any pin, port and prior
\* register value
OneCaller == [d \in Devs |-> IF d = 1 THEN "wide" ELSE "none"]

OneDevice == {[d \in Devs |-> IF d = 1 THEN b ELSE Shared] : b \in {Nil, Shared}}

Sequential == Start(Byte, OneDevice, OneCaller, 1, FALSE, 0)

SpecSeq == Sequential /\ [][Next]_vars

\* as SpecSeq, over a transport that may transfer fewer bytes than asked
\* and report no error
ShortCounts == Start({0, 85}, OneDevice, OneCaller, 1, TRUE, 0)

SpecShort == ShortCounts /\ [][Next]_vars

\* ================================================================ claims
\* vocabulary of the claims
Done(d, fn) == pc[d] = "idle" /\ res[d].done /\ cur[d].fn = fn

Ok(d, fn) == Done(d, fn) /\ ~res[d].err

\* a transport call that transferred all of buf without error
WriteCall(buf) == [k |-> "Write", buf |-> buf, n |-> Len(buf), err |-> FALSE]

ReadCall(v) == [k |-> "Read", buf |-> <<v>>, n |-> 1, err |-> FALSE]

\* the chip Device d talks to
Target(d) == bound[bus[d]]

\* the byte r with bit i made 1 (on) or 0, the other seven bits those of r
WithBit(r, i, on) == r - Bit(r, i) * (2 ^ i) + (IF on THEN 2 ^ i ELSE 0)

\* pins 1..8 are bits 0..7 of port A, pins 9..16 bits 0..7 of port B
BitOf(p) == IF p <= 8 THEN p - 1 ELSE p - 9

OnPortA(p) == p <= 8

\* the register files no call has written yet
SeedChip(r) == [a \in Addrs |-> [reg \in Regs |-> Seed(r, a, reg)]]

Untouched == {SeedChip(r) : r \in Byte}

\* the shape of a read-modify-write of register reg by Device d: address
\* write, read, then a write of [reg, want(byte read)]
ReadModifyWrite(d, reg, i, on) ==
    LET c == calls[d] IN
    /\ Len(c) <= 3
    /\ Len(c) >= 1 => c[1].k = "Write" /\ c[1].buf = <<reg>>
    /\ Len(c) >= 2 => c[2].k = "Read" /\ Len(c[2].buf) = 1 /\ ~c[1].err
    /\ Len(c) = 3 => /\ ~c[2].err
                     /\ c[3].k = "Write"
                     /\ c[3].buf = <<reg, WithBit(c[2].buf[1], i, on)>>
    /\ pc[d] = "wbd_write" => c[2].buf[1] = chip[Target(d)][reg]
    /\ (pc[d] = "idle" /\ res[d].done /\ ~res[d].err) =>
          /\ Len(c) = 3
          /\ \E r \in Byte :
                chip = [SeedChip(r) EXCEPT ![Target(d)][reg] =
                            WithBit(c[2].buf[1], i, on)]

\* C1: with two Devices on one transport, no Write or Read of another
\* Device falls between the address write and the read of a ReadByteData
\* transaction: while Device d is between its two calls, no step adds a
\* Write or Read of a Device e that shares d's file.
C1_TransactionsContiguous ==
    [][\A d \in Devs, e \in Devs :
          (d # e /\ pc[d] = "rbd_read" /\ bus[d] = bus[e] /\ Reaches(d)
               /\ Len(calls'[e]) > Len(calls[e]))
              => calls'[e][Len(calls'[e])].k \notin {"Write", "Read"}]_vars

\* C2: ReadByteData(reg) makes one transport write of [reg] and, after it,
\* one read of one byte (none when the address write failed); it never
\* sends a data byte and leaves every chip register as it was; on success
\* it returns the byte read, the content of register reg.
C2_ReadByteData ==
    \A d \in Devs : cur[d].fn = "ReadByteData" =>
        LET c == calls[d] IN
        /\ Len(c) <= 2
        /\ Len(c) >= 1 => c[1].k = "Write" /\ c[1].buf = <<cur[d].a>>
        /\ Len(c) = 2 => c[2].k = "Read" /\ Len(c[2].buf) = 1 /\ ~c[1].err
        /\ (pc[d] = "idle" /\ res[d].done) => Len(c) >= 1
        /\ Ok(d, "ReadByteData") =>
              /\ Len(c) = 2
              /\ res[d].val = c[2].buf[1]
              /\ res[d].val = chip[Target(d)][cur[d].a]
        /\ chip \in Untouched

C2_Witness ==
    /\ Ok(1, "ReadByteData")
    /\ cur[1].a = GPIOB
    /\ calls[1] = <<WriteCall(<<GPIOB>>), ReadCall(85)>>
    /\ res[1].val = 85

\* C3: a successful WriteByteData(reg, value) makes exactly one transport
\* write, of the two bytes [reg, value], and no read; afterwards register
\* reg of the chip holds value and no other register has changed.
C3_WriteByteData ==
    \A d \in Devs : cur[d].fn = "WriteByteData" =>
        /\ Len(calls[d]) <= 1
        /\ \A i \in 1..Len(calls[d]) :
              calls[d][i].k = "Write" /\ calls[d][i].buf = <<cur[d].a, cur[d].b>>
        /\ Ok(d, "WriteByteData") =>
              /\ calls[d] = <<WriteCall(<<cur[d].a, cur[d].b>>)>>
              /\ \E r \in Byte :
                    chip = [SeedChip(r) EXCEPT ![Target(d)][cur[d].a] = cur[d].b]

C3_Witness ==
    /\ Ok(1, "WriteByteData")
    /\ cur[1].a = IOCON /\ cur[1].b = 85
    /\ chip[Target(1)][IOCON] = 85
    /\ chip[Target(1)][GPIOA] # 85

\* C4: after Init on a working transport the calls of driverInit include
\* the seven writes [IOCON,0x22], [IODIRA,0xFF], [IODIRB,0xFF],
\* [GPPUA,0x00], [GPPUB,0x00], [IPOLA,0x00], [IPOLB,0x00].
C4_DriverInitWrites ==
    \A d \in Devs :
        (Ok(d, "Init") /\ \A i \in 1..Len(calls[d]) : ~calls[d][i].err) =>
            \A w \in {<<IOCON, 34>>, <<IODIRA, 255>>, <<IODIRB, 255>>,
                      <<GPPUA, 0>>, <<GPPUB, 0>>, <<IPOLA, 0>>, <<IPOLB, 0>>} :
                \E i \in 1..Len(calls[d]) : calls[d][i] = WriteCall(w)

\* C5: SetPinPullup(p, s) for p in 1..16 reads the pull-up register of p's
\* port and writes back the byte read with p's bit set when s is nonzero
\* and cleared when s is 0.
C5_SetPinPullup ==
    \A d \in Devs :
        (cur[d].fn = "SetPinPullup" /\ cur[d].a \in 1..16) =>
            ReadModifyWrite(d, IF OnPortA(cur[d].a) THEN GPPUA ELSE GPPUB,
                            BitOf(cur[d].a), cur[d].b # 0)

\* C6: WritePin(p, state) for p in 1..16 and state Low or High reads the
\* GPIO register of p's port and writes to that register the byte read
\* with p's bit made equal to state, the other seven bits unchanged.
C6_WritePin ==
    \A d \in Devs :
        (cur[d].fn = "WritePin" /\ cur[d].a \in 1..16
            /\ cur[d].b \in {StateLow, StateHigh}) =>
            ReadModifyWrite(d, IF OnPortA(cur[d].a) THEN GPIOA ELSE GPIOB,
                            BitOf(cur[d].a), cur[d].b = StateHigh)

C6_Witness ==
    /\ Ok(1, "WritePin")
    /\ cur[1].a = 15 /\ cur[1].b = StateHigh
    /\ calls[1] = <<WriteCall(<<GPIOB>>), ReadCall(0), WriteCall(<<GPIOB, 64>>)>>

\* C7: SetPinDirection(p, mode) and SetPinPolarity(p, pol) for p in 1..16
\* read the IODIR (IPOL) register of p's port and write back to the same
\* register the byte read with p's bit set when the value is nonzero and
\* cleared when it is 0; no other register is written.
C7_SetPinDirectionPolarity ==
    \A d \in Devs :
        /\ (cur[d].fn = "SetPinDirection" /\ cur[d].a \in 1..16) =>
              ReadModifyWrite(d, IF OnPortA(cur[d].a) THEN IODIRA ELSE IODIRB,
                              BitOf(cur[d].a), cur[d].b # 0)
        /\ (cur[d].fn = "SetPinPolarity" /\ cur[d].a \in 1..16) =>
              ReadModifyWrite(d, IF OnPortA(cur[d].a) THEN IPOLA ELSE IPOLB,
                              BitOf(cur[d].a), cur[d].b # 0)

C7_Witness ==
    /\ Ok(1, "SetPinDirection")
    /\ cur[1].a = 16 /\ cur[1].b = 0
    /\ calls[1] = <<WriteCall(<<IODIRB>>), ReadCall(255),
                    WriteCall(<<IODIRB, 127>>)>>

\* C8: a port-level write with port A or B makes exactly one transport
\* write, [register of that port and function, the caller's byte], and no
\* read; ReadPort makes one ReadByteData transaction on GPIOA or GPIOB.
PortWriters == {"SetPortPullups", "SetPortPolarity", "SetPortDirection",
                "WritePort"}

PortRegister(fn, port) ==
    CASE fn = "SetPortDirection" -> IF port = PortA THEN IODIRA ELSE IODIRB
      [] fn = "SetPortPolarity" -> IF port = PortA THEN IPOLA ELSE IPOLB
      [] fn = "SetPortPullups" -> IF port = PortA THEN GPPUA ELSE GPPUB
      [] OTHER -> IF port = PortA THEN GPIOA ELSE GPIOB

C8_PortOperations ==
    \A d \in Devs :
        LET c == calls[d]
            reg == PortRegister(cur[d].fn, cur[d].a)
        IN
        /\ (cur[d].fn \in PortWriters /\ cur[d].a \in {PortA, PortB}) =>
              /\ Len(c) <= 1
              /\ \A i \in 1..Len(c) :
                    c[i].k = "Write" /\ c[i].buf = <<reg, cur[d].b>>
              /\ (pc[d] = "idle" /\ res[d].done) => Len(c) = 1
              /\ (pc[d] = "idle" /\ res[d].done /\ ~res[d].err) =>
                    chip[Target(d)][reg] = cur[d].b
        /\ (cur[d].fn = "ReadPort" /\ cur[d].a \in {PortA, PortB}) =>
              /\ Len(c) <= 2
              /\ Len(c) >= 1 => c[1].k = "Write" /\ c[1].buf = <<reg>>
              /\ Len(c) = 2 => c[2].k = "Read" /\ ~c[1].err
              /\ (pc[d] = "idle" /\ res[d].done) => Len(c) >= 1
              /\ (pc[d] = "idle" /\ res[d].done /\ ~res[d].err) =>
                    Len(c) = 2 /\ res[d].val = chip[Target(d)][reg]

C8_Witness ==
    /\ Ok(1, "SetPortDirection")
    /\ cur[1].a = PortB /\ cur[1].b = 85
    /\ calls[1] = <<WriteCall(<<IODIRB, 85>>)>>

\* C9: SetPortPolarity(port, PinPolarityInverted) writes 0xFF to the port's
\* IPOL register and PinPolarityNormal writes 0x00; SetPortDirection(port,
\* Input) writes 0xFF to the port's IODIR register and Output writes 0x00.
C9_WholePortSettings ==
    \A d \in Devs :
        /\ (Ok(d, "SetPortPolarity") /\ cur[d].a \in {PortA, PortB}
               /\ cur[d].b \in {PinPolarityNormal, PinPolarityInverted}) =>
              calls[d] = <<WriteCall(<<PortRegister("SetPortPolarity", cur[d].a),
                              IF cur[d].b = PinPolarityInverted THEN 255 ELSE 0>>)>>
        /\ (Ok(d, "SetPortDirection") /\ cur[d].a \in {PortA, PortB}
               /\ cur[d].b \in {Output, Input}) =>
              calls[d] = <<WriteCall(<<PortRegister("SetPortDirection", cur[d].a),
                              IF cur[d].b = Input THEN 255 ELSE 0>>)>>

RegisterOps == {"ReadByteData", "WriteByteData"}

PortOps == PortWriters \cup {"ReadPort"}

PinOps == {"SetPinPullup", "SetPinPolarity", "SetPinDirection", "WritePin"}

\* C11: a transport call that reports an error is the last call of the
\* operation (no retry, and ReadByteData issues no read after a failed
\* address write), and the operation (register, port or pin level) returns
\* an error, with the zero byte where it returns a value; a failed
\* WriteByteData has made that single attempt only.
C11_FailuresSurface ==
    \A d \in Devs :
        cur[d].fn \in RegisterOps \cup PortOps \cup PinOps \cup {"ReadPin"} =>
            LET c == calls[d] IN
            /\ \A i \in 1..Len(c) :
                  c[i].err => /\ i = Len(c)
                              /\ pc[d] = "idle"
                              /\ res[d].done /\ res[d].err /\ res[d].val = 0
            /\ (cur[d].fn = "WriteByteData" /\ Len(c) >= 1 /\ c[1].err) =>
                  Len(c) = 1
            /\ (cur[d].fn = "ReadByteData" /\ Len(c) >= 1 /\ c[1].err) =>
                  \A i \in 1..Len(c) : c[i].k # "Read"

\* a pin-level write whose final register write fails on a live transport
C11_Witness ==
    /\ Done(1, "SetPinPolarity") /\ res[1].err
    /\ Reaches(1) /\ Target(1) = Address[1]
    /\ Len(calls[1]) = 3
    /\ ~calls[1][1].err /\ ~calls[1][2].err
    /\ calls[1][3].k = "Write" /\ calls[1][3].err

\* C12: with a Port outside {PortA, PortB}, SetPortDirection,
\* SetPortPolarity, SetPortPullups and WritePort return an error and
\* ReadPort returns the zero byte and an error; none of the five makes a
\* transport call and no chip register changes.
C12_InvalidPort ==
    \A d \in Devs :
        (cur[d].fn \in PortOps /\ cur[d].a \notin {PortA, PortB}) =>
            /\ pc[d] = "idle"
            /\ res[d].done /\ res[d].err /\ res[d].val = 0
            /\ calls[d] = << >>
            /\ chip \in Untouched

C12_Witness ==
    /\ Done(1, "ReadPort") /\ cur[1].a = 255
    /\ res[1].err /\ res[1].val = 0
    /\ calls[1] = << >>
    /\ Reaches(1) /\ Target(1) = Address[1]

\* C13: when the open of Init fails, Init returns an error and makes no
\* address bind and no register write; when the address bind fails, Init
\* returns an error and makes no register write (driverInit is not run).
\* In both cases the failed call is the last call of Init and no chip
\* register has changed.
C13_InitAborts ==
    \A d \in Devs : cur[d].fn = "Init" =>
        LET c == calls[d] IN
        \A i \in 1..Len(c) :
            (c[i].k \in {"Open", "Ioctl"} /\ c[i].err) =>
                /\ i = Len(c)
                /\ pc[d] = "idle" /\ res[d].done /\ res[d].err
                /\ \A j \in 1..Len(c) : c[j].k # "Write"
                /\ c[i].k = "Open" => \A j \in 1..Len(c) : c[j].k # "Ioctl"
                /\ chip \in Untouched

\* the path was opened and the address bind then failed
C13_Witness ==
    /\ Done(1, "Init") /\ res[1].err
    /\ Len(calls[1]) = 2
    /\ calls[1][1].k = "Open" /\ ~calls[1][1].err
    /\ calls[1][2].k = "Ioctl" /\ calls[1][2].err

\* the register writes among the transport calls c, in order
IsWrite(x) == x.k = "Write"

Writes(c) == SelectSeq(c, IsWrite)

Bound(c) == \E i \in 1..Len(c) : c[i].k = "Ioctl" /\ ~c[i].err

\* the registers driverInit writes, in order
InitRegisters == <<IOCON, IODIRA, IODIRB, GPPUA, GPPUB, IPOLA, IPOLB>>

\* C14: when open and bind succeed, Init returns success whatever the
\* seven register writes of driverInit return, and a failing write does
\* not stop the sequence: the writes to IOCON, IODIRA, IODIRB, GPPUA,
\* GPPUB, IPOLA, IPOLB are all attempted, in that order.
C14_InitWriteErrorsDiscarded ==
    \A d \in Devs : (cur[d].fn = "Init" /\ Bound(calls[d])) =>
        LET w == Writes(calls[d]) IN
        /\ Len(w) <= 7
        /\ \A i \in 1..Len(w) :
              Len(w[i].buf) = 2 /\ w[i].buf[1] = InitRegisters[i]
        /\ (pc[d] = "idle" /\ res[d].done) => ~res[d].err /\ Len(w) = 7
        /\ pc[d] # "idle" => Len(w) < 7

\* the shared file is closed by the other Device after the bind: all seven
\* writes fail and Init returns success
C14_Witness ==
    /\ Ok(2, "Init")
    /\ Bound(calls[2])
    /\ Len(Writes(calls[2])) = 7
    /\ \A i \in 1..7 : Writes(calls[2])[i].err

\* C15: with Devices of distinct addresses on one transport, used one call
\* at a time, a register transaction of an initialised Device d is
\* delivered to the chip at d's own address: a successful write changes no
\* register of another chip and a successful read returns a register of
\* the chip at Address[d].
C15_OwnChip ==
    [][\A d \in Devs :
          (/\ ready[d]
           /\ Len(calls'[d]) > Len(calls[d])
           /\ calls'[d][Len(calls'[d])].k \in {"Write", "Read"}
           /\ ~calls'[d][Len(calls'[d])].err)
              => /\ Target(d) = Address[d]
                 /\ \A a \in Addrs \ {Address[d]} : chip'[a] = chip[a]
                 /\ calls'[d][Len(calls'[d])].k = "Read" =>
                       \E reg \in Regs :
                           calls'[d][Len(calls'[d])].buf[1]
                               = chip[Address[d]][reg]]_vars

\* the register of port A and of port B that a pin-level function uses
PinRegister(fn, onA) ==
    CASE fn = "SetPinPullup" -> IF onA THEN GPPUA ELSE GPPUB
      [] fn = "SetPinPolarity" -> IF onA THEN IPOLA ELSE IPOLB
      [] fn = "SetPinDirection" -> IF onA THEN IODIRA ELSE IODIRB
      [] OTHER -> IF onA THEN GPIOA ELSE GPIOB

\* C16: a pin-level function called with pin p works on bit p-1 of port A
\* for p in 1..8 and on bit p-9 of port B for p in 9..16, so the bit index
\* is in 0..7; the mapping has been applied before any transport call is
\* made; and no two pins of 1..16 map to the same (bit, port).
C16_Locate ==
    /\ \A d \in Devs :
          (cur[d].fn \in PinOps \cup {"ReadPin"} /\ cur[d].a \in 1..16) =>
              /\ cur[d].a \in 1..8 =>
                    /\ cur[d].bit = cur[d].a - 1
                    /\ cur[d].reg = PinRegister(cur[d].fn, TRUE)
              /\ cur[d].a \in 9..16 =>
                    /\ cur[d].bit = cur[d].a - 9
                    /\ cur[d].reg = PinRegister(cur[d].fn, FALSE)
              /\ cur[d].bit \in 0..7
              /\ \A q \in 1..16 :
                    translatePin(q) = translatePin(cur[d].a) => q = cur[d].a
              /\ \A i \in 1..Len(calls[d]) :
                    calls[d][i].k = "Write" => calls[d][i].buf[1] = cur[d].reg

\* ReadPin(16) has located bit 7 of port B and has made no transport call
C16_Witness ==
    /\ cur[1].fn = "ReadPin" /\ cur[1].a = 16
    /\ pc[1] = "rbd_write" /\ calls[1] = << >>
    /\ cur[1].bit = 7 /\ cur[1].reg = GPIOB

\* C17: for the byte b a pin-level function has read, its bit index i in
\* 0..7 and the value v its caller passed: setBit(b, i, v) is b with bit i
\* cleared when v = 0 and set for every other v (0xFF as well as 1), the
\* other seven bits unchanged; getBit(b, i) is bit i of b;
\* getBit(setBit(b, i, v), i) is 1 exactly when v is not 0; setBit applied
\* twice gives what it gives once. The byte WritePin, SetPinDirection and
\* SetPinPolarity write is setBit(b, i, v) and the result of ReadPin is
\* getBit(b, i).
C17_BitFields ==
    \A d \in Devs :
        (/\ cur[d].fn \in PinOps \cup {"ReadPin"}
         /\ cur[d].bit \in 0..7
         /\ Len(calls[d]) >= 2 /\ ~calls[d][2].err) =>
            LET b == calls[d][2].buf[1]
                i == cur[d].bit
                v == cur[d].b
            IN
            /\ setBit(b, i, v) = WithBit(b, i, v # 0)
            /\ \A j \in 0..7 : j # i => Bit(setBit(b, i, v), j) = Bit(b, j)
            /\ getBit(b, i) = Bit(b, i)
            /\ getBit(setBit(b, i, v), i) = (IF v # 0 THEN 1 ELSE 0)
            /\ setBit(setBit(b, i, v), i, v) = setBit(b, i, v)
            /\ (cur[d].fn \in PinOps \ {"SetPinPullup"} /\ Len(calls[d]) = 3) =>
                  calls[d][3].buf[2] = WithBit(b, i, v # 0)
            /\ Ok(d, "ReadPin") => res[d].val = Bit(b, i)

\* the value 0xFF sets bit 3 of a byte in which it was clear
C17_Witness ==
    /\ Ok(1, "SetPinPolarity")
    /\ cur[1].a = 4 /\ cur[1].b = 255
    /\ calls[1] = <<WriteCall(<<IPOLA>>), ReadCall(85),
                    WriteCall(<<IPOLA, 93>>)>>

\* C18: Close makes exactly one transport call, the close of the
\* transport, and no register transaction (no write, no read, no chip
\* register changes); it returns an error exactly when that close
\* returned one.
C18_Close ==
    \A d \in Devs : cur[d].fn = "Close" =>
        LET c == calls[d] IN
        /\ Len(c) <= 1
        /\ \A i \in 1..Len(c) : c[i].k = "Close"
        /\ pc[d] = "close" => c = << >>
        /\ (pc[d] = "idle" /\ res[d].done) =>
              Len(c) = 1 /\ res[d].err = c[1].err
        /\ chip \in Untouched

\* the close of a live transport fails and Close returns that error
C18_Witness ==
    /\ Done(1, "Close") /\ res[1].err
    /\ bus[1] = Shared /\ ~fopen[Shared]
    /\ calls[1] = <<[k |-> "Close", buf |-> << >>, n |-> 0, err |-> TRUE]>>

\* C19: the calls of an Init come in the order open, address bind,
\* register writes: an open is the first call, the bind is the first call
\* or follows a successful open, and every register write follows a
\* successful bind of the same Init; and the path is opened only by a
\* Device that holds no file (never by a Device built on an open handle,
\* never by a second Init of a Device that has opened its path).
C19_InitOrder ==
    /\ [](\A d \in Devs : cur[d].fn = "Init" =>
            LET c == calls[d] IN
            \A i \in 1..Len(c) :
                /\ c[i].k \in {"Open", "Ioctl", "Write"}
                /\ c[i].k = "Open" => i = 1
                /\ c[i].k = "Ioctl" =>
                      \/ i = 1
                      \/ i = 2 /\ c[1].k = "Open" /\ ~c[1].err
                /\ c[i].k = "Write" =>
                      \E j \in 1..(i - 1) : c[j].k = "Ioctl" /\ ~c[j].err)
    /\ [][\A d \in Devs :
            (/\ Len(calls'[d]) > Len(calls[d])
             /\ calls'[d][Len(calls'[d])].k = "Open")
                => bus[d] = Nil /\ ~ready[d]]_vars

\* a second Init of Device 2, which opened its path in its first Init,
\* has bound the address and run driverInit without opening again
C19_Witness ==
    /\ Ok(2, "Init")
    /\ bus[2] = 2 /\ fopen[2]
    /\ Len(calls[2]) = 8
    /\ calls[2][1].k = "Ioctl" /\ ~calls[2][1].err
    /\ \A i \in 2..8 : calls[2][i].k = "Write"

\* two callers working on the same register of the same chip through one
\* file, each having completed a pin-level function (only Init reads
\* dev.Address, so the two behave as two callers of one Device)
BothDone(d, e) ==
    /\ d # e
    /\ cur[d].fn \in PinOps /\ cur[e].fn \in PinOps
    /\ Ok(d, cur[d].fn) /\ Ok(e, cur[e].fn)
    /\ bus[d] = bus[e]
    /\ cur[d].reg = cur[e].reg

\* C20: the read and the write of a pin-level function are two separate
\* transactions and the write replaces the whole register: when two
\* callers have completed pin-level functions on one register after both
\* read the same content, the register holds the byte one of them wrote,
\* i.e. the content read with that caller's bit changed only (the witness
\* is the interleaving read, read, write, write on two different pins, in
\* which the first writer's bit is lost).
C20_PinLevelNotAtomic ==
    \A d \in Devs, e \in Devs :
        (BothDone(d, e) /\ calls[d][2].buf = calls[e][2].buf) =>
            chip[Target(d)][cur[d].reg]
                \in {calls[d][3].buf[2], calls[e][3].buf[2]}

\* SetPinDirection(1, Input) and SetPinDirection(2, Input) both read 0x00;
\* caller 1 writes 0x01, then caller 2 writes 0x02: pin 1 is an output
\* again although its call succeeded
C20_Witness ==
    /\ BothDone(1, 2)
    /\ cur[1].fn = "SetPinDirection" /\ cur[1].a = 1 /\ cur[1].b = Input
    /\ cur[2].fn = "SetPinDirection" /\ cur[2].a = 2 /\ cur[2].b = Input
    /\ calls[1] = <<WriteCall(<<IODIRA>>), ReadCall(0),
                    WriteCall(<<IODIRA, 1>>)>>
    /\ calls[2] = <<WriteCall(<<IODIRA>>), ReadCall(0),
                    WriteCall(<<IODIRA, 2>>)>>
    /\ chip[Target(1)][IODIRA] = 2

\* C21: when the read transaction of SetPinPullup, SetPinPolarity,
\* SetPinDirection or WritePin fails (its address write or its read), the
\* function returns an error and sends no data byte: the calls made are
\* those of the failed read transaction only and no chip register has
\* changed.
C21_FailedReadNoWrite ==
    \A d \in Devs :
        (/\ cur[d].fn \in PinOps
         /\ \E i \in 1..Len(calls[d]) : i <= 2 /\ calls[d][i].err) =>
            LET c == calls[d] IN
            /\ pc[d] = "idle" /\ res[d].done /\ res[d].err
            /\ Len(c) <= 2
            /\ c[1].k = "Write" /\ c[1].buf = <<cur[d].reg>>
            /\ Len(c) = 2 => c[2].k = "Read" /\ ~c[1].err
            /\ \A i \in 1..Len(c) : Len(c[i].buf) < 2
            /\ chip \in Untouched

\* the register address reached the chip and the read then failed
C21_Witness ==
    /\ Done(1, "WritePin") /\ res[1].err
    /\ cur[1].a = 9 /\ cur[1].b = StateHigh
    /\ Len(calls[1]) = 2
    /\ calls[1][1] = WriteCall(<<GPIOB>>)
    /\ calls[1][2].k = "Read" /\ calls[1][2].err
    /\ ptr[Target(1)] = GPIOB

\* C22: ReadPin(p) for p in 1..16 makes one read transaction on the GPIO
\* register of p's port (the address write [GPIOA] or [GPIOB], then one
\* read of one byte, none when the address write failed) and sends no
\* data byte; on success it returns 1 when p's bit of the byte read is set
\* and 0 otherwise; when the transaction fails it returns 0 and the error.
C22_ReadPin ==
    \A d \in Devs : (cur[d].fn = "ReadPin" /\ cur[d].a \in 1..16) =>
        LET c == calls[d]
            reg == IF OnPortA(cur[d].a) THEN GPIOA ELSE GPIOB
        IN
        /\ Len(c) <= 2
        /\ Len(c) >= 1 => c[1].k = "Write" /\ c[1].buf = <<reg>>
        /\ Len(c) = 2 => c[2].k = "Read" /\ Len(c[2].buf) = 1 /\ ~c[1].err
        /\ (pc[d] = "idle" /\ res[d].done) =>
              /\ Len(c) >= 1
              /\ res[d].err = c[Len(c)].err
              /\ res[d].err => res[d].val = 0
              /\ ~res[d].err =>
                    /\ Len(c) = 2
                    /\ c[2].buf[1] = chip[Target(d)][reg]
                    /\ res[d].val = Bit(c[2].buf[1], BitOf(cur[d].a))
        /\ chip \in Untouched

\* pin 7 is bit 6 of port A: the byte read is 0x40 and the result is High
C22_Witness ==
    /\ Ok(1, "ReadPin")
    /\ cur[1].a = 7
    /\ calls[1] = <<WriteCall(<<GPIOA>>), ReadCall(64)>>
    /\ res[1].val = StateHigh

\* C23: a pin outside 1..16 is not rejected. Pin 0 is located at bit 255
\* of port A and a pin p > 16 at bit p-9 (8 or more) of port B; the mask of
\* such a bit is 0 in a byte, so SetPinPolarity, SetPinDirection and
\* WritePin make their read and their write and write back the byte read,
\* ReadPin returns 0, no chip register changes, and the call returns no
\* error unless a transport call failed.
C23_PinsOutOfRange ==
    \A d \in Devs :
        (/\ cur[d].fn \in {"SetPinPolarity", "SetPinDirection", "WritePin",
                           "ReadPin"}
         /\ cur[d].a \notin 1..16) =>
            LET c == calls[d] IN
            /\ cur[d].bit = (IF cur[d].a = 0 THEN 255 ELSE cur[d].a - 9)
            /\ cur[d].bit >= 8
            /\ cur[d].reg = PinRegister(cur[d].fn, cur[d].a = 0)
            /\ Len(c) >= 1 => c[1].k = "Write" /\ c[1].buf = <<cur[d].reg>>
            /\ Len(c) >= 2 => c[2].k = "Read"
            /\ Len(c) >= 3 => /\ cur[d].fn # "ReadPin"
                              /\ c[3].k = "Write"
                              /\ c[3].buf = <<cur[d].reg, c[2].buf[1]>>
            /\ (pc[d] = "idle" /\ res[d].done) =>
                  /\ Len(c) >= 1
                  /\ res[d].err = c[Len(c)].err
                  /\ ~res[d].err =>
                        /\ Len(c) = (IF cur[d].fn = "ReadPin" THEN 2 ELSE 3)
                        /\ cur[d].fn = "ReadPin" => res[d].val = 0
            /\ chip \in Untouched

\* WritePin(0, High) reads 0x55 from GPIOA and writes 0x55 back
C23_Witness ==
    /\ Ok(1, "WritePin")
    /\ cur[1].a = 0 /\ cur[1].b = StateHigh
    /\ calls[1] = <<WriteCall(<<GPIOA>>), ReadCall(85),
                    WriteCall(<<GPIOA, 85>>)>>

\* C24: once the file a Device holds has been closed (by its own Close or
\* by the Close of another Device on the same file), every transport call
\* made through that Device fails and changes no chip register, and the
\* function making it returns an error at that call: a register, port or
\* pin operation of any Device on the file, and a second Close. (Init
\* alone goes on after a failed register write, as it drops the errors of
\* driverInit.)
C24_CloseReleases ==
    [][\A d \in Devs :
          (/\ bus[d] # Nil /\ ~fopen[bus[d]]
           /\ Len(calls'[d]) > Len(calls[d]))
              => /\ calls'[d][Len(calls'[d])].err
                 /\ chip' = chip
                 /\ cur[d].fn # "Init" =>
                       /\ pc'[d] = "idle"
                       /\ res'[d].done /\ res'[d].err]_vars

\* Device 1 has closed the shared file; WritePin of Device 2 then fails at
\* its first transport call, with no failure of the bus itself
C24_Witness ==
    /\ Ok(1, "Close")
    /\ bus[2] = Shared /\ ~fopen[Shared]
    /\ Done(2, "WritePin") /\ res[2].err
    /\ calls[2] = <<[k |-> "Write", buf |-> <<GPIOA>>, n |-> 0, err |-> TRUE]>>
    /\ faults = MaxFaults - 1
    /\ chip \in Untouched

====
